---------------------------- MODULE Spec2Model ----------------------------
(***************************************************************************)
(* The workshop notebooks as state machines.  A notebook run is a Python   *)
(* kernel: a namespace (ns) binding names to objects, and a heap of        *)
(* objects that the library calls create, copy or change in place.  Every  *)
(* code cell is a sequence of statements; running a cell executes them in  *)
(* order.  Matrix entries are not modelled: a covariance, a filter and a   *)
(* source estimate are represented by what they were computed from         *)
(* (object identity and version, channel set, time window, parameters).    *)
(***************************************************************************)
EXTENDS Integers, Sequences, FiniteSets, TLC

VARIABLES nb, pc, ns, heap, status, disk, reruns

vars == <<nb, pc, ns, heap, status, disk, reruns>>

-----------------------------------------------------------------------------
(* Bounds of the model.                                                    *)

\* longest event list on the stim channel of the recording
MaxEvents == 2
\* largest number of SSP projectors stored in the recording
MaxProj == 2
\* how many times cells are executed again in an interactive session
MaxReruns == 2

-----------------------------------------------------------------------------
(* The sample recording, sample_audvis_raw.fif.                            *)

Types == {"mag", "grad", "eeg", "eog", "stim"}
MegTypes == {"mag", "grad"}
DataTypes == {"mag", "grad", "eeg"}

NMag == 102
NGrad == 204
NEEG == 60
NEog == 1
NStim == 9

\* trigger codes of the recording: 1, 2 auditory, 3, 4 visual, 5 other
EventCodes == {1, 2, 3, 4, 5}

\* sampling period of the recording in microseconds (about 600.6 Hz)
SamplePeriodUs == 1665

\* channel type of a channel name: MEG names ending in 1 are magnetometers
ChType(name) ==
    CASE name \in {"MEG 2443", "MEG 2313"} -> "grad"
      [] name \in {"MEG 2441", "MEG 2311"} -> "mag"
      [] name \in {"EEG 053"} -> "eeg"
      [] OTHER -> "stim"

\* the bad-channel lists the file may carry
DiskBadsChoices == { <<"MEG 2443", "EEG 053">>, <<"MEG 2443">> }

DiskNch == [t \in Types |->
              CASE t = "mag" -> NMag
                [] t = "grad" -> NGrad
                [] t = "eeg" -> NEEG
                [] t = "eog" -> NEog
                [] OTHER -> NStim]

EventLists == UNION { [1..n -> EventCodes] : n \in 1..MaxEvents }

Disks == [events : EventLists, bads : DiskBadsChoices, ssp : 0..MaxProj]

-----------------------------------------------------------------------------
(* Helpers.                                                                *)

Range(s) == { s[i] : i \in DOMAIN s }

Min(a, b) == IF a <= b THEN a ELSE b

\* round(a / b) for b > 0, halves away from zero
Round(a, b) == IF a >= 0 THEN (2 * a + b) \div (2 * b)
                         ELSE 0 - ((2 * (0 - a) + b) \div (2 * b))

Names == {"raw", "raw_sss", "events", "epochs", "epochs_meg", "epochs_orig",
          "epochs_sss", "evoked", "evoked_meg", "evoked_orig", "evoked_sss",
          "fwd", "fwd_meg", "fwd_meeg", "data_cov", "noise_cov",
          "data_cov_sss", "data_cov_orig", "noise_cov_sss", "cov_base",
          "cov_acti", "cov_common", "filters", "inv", "ranks", "data_rank",
          "stc", "stc_vec", "stc_base", "stc_acti", "stc_diff", "stc_meg",
          "stc_sss", "stc_orig", "stc_mne", "stc_lcmv", "peak_vox",
          "sens_map_mag", "sens_map_eeg", "clim", "brain"}

\* interpreter state of a cell: namespace, heap, raised exception ("" = none)
Alloc(st, name, obj) ==
    [st EXCEPT !.heap = Append(st.heap, obj),
               !.ns = [st.ns EXCEPT ![name] = Len(st.heap) + 1]]

Raise(st, msg) == [st EXCEPT !.err = msg]

Defined(st, names) == \A n \in names : st.ns[n] # 0

Obj(st, name) == st.heap[st.ns[name]]

\* number of good (not bad) channels of type t
Good(info, t) ==
    info.nch[t] - Cardinality({ b \in Range(info.bads) :
                                  ChType(b) = t /\ info.nch[t] > 0 })

GoodData(info) == [t \in DataTypes |-> Good(info, t)]

-----------------------------------------------------------------------------
(* The library calls the notebooks make.  st is the kernel state while a   *)
(* cell runs, s the statement with its arguments.  Times are microseconds; *)
(* an optional time is the empty set (None) or a singleton.                *)

\* mne.Epochs defaults: tmin=-0.2, tmax=0.5
EpochTminUs == -200000
EpochTmaxUs == 500000

\* make_lcmv default reg=0.05, in per mille
DefaultReg == 50

\* sample index (relative to the event) nearest to time t
TimeToSample(t) == Round(t, SamplePeriodUs)

\* raw = mne.io.read_raw_fif(fname_raw)
read_raw_fif(st, s) ==
    Alloc(st, s.dst,
          [kind |-> "raw",
           info |-> [nch |-> DiskNch, bads |-> disk.bads, ref |-> "none",
                     ssp |-> disk.ssp, sss |-> FALSE],
           events |-> disk.events, loaded |-> FALSE, ver |-> 0])

\* info after picking channel types: bads of dropped channels leave the list
PickInfo(info, picks) ==
    [info EXCEPT !.nch = [t \in Types |-> IF t \in picks THEN info.nch[t] ELSE 0],
                 !.bads = SelectSeq(info.bads, LAMBDA b : ChType(b) \in picks),
                 !.ssp = IF picks \cap MegTypes = {} THEN 0 ELSE info.ssp]

\* mutant: the selection is made on a derived copy that the cell drops
pick_Copy(st, s) == st

\* inst.pick(picks=[...]): changes inst in place and returns it
pick(st, s) ==
    LET id == st.ns[s.a]
        o == st.heap[id]
    IN  [st EXCEPT !.heap[id] = [o EXCEPT !.info = PickInfo(o.info, s.picks),
                                          !.ver = o.ver + 1]]

\* inst.load_data(): reads the data into memory, in place, returns inst
load_data(st, s) ==
    LET id == st.ns[s.a]
    IN  [st EXCEPT !.heap[id] = [st.heap[id] EXCEPT !.loaded = TRUE]]

\* mutant: the new name is bound to the object itself
copy_Alias(st, s) == [st EXCEPT !.ns[s.dst] = st.ns[s.a]]

\* x.copy(): a new object with the same content
copy(st, s) == Alloc(st, s.dst, [Obj(st, s.a) EXCEPT !.ver = 0])

\* raw.set_eeg_reference(ref_channels='average', projection=True), in place
set_eeg_reference(st, s) ==
    LET id == st.ns[s.a]
        o == st.heap[id]
    IN  [st EXCEPT !.heap[id] = [o EXCEPT !.info = [o.info EXCEPT !.ref = "average"],
                                          !.ver = o.ver + 1]]

\* mutant: a name already in the list is not added again
bads_extend_Unique(st, s) ==
    LET id == st.ns[s.a]
        o == st.heap[id]
    IN  [st EXCEPT !.heap[id] =
            [o EXCEPT !.info = [o.info EXCEPT !.bads =
                                  IF s.name \in Range(o.info.bads) THEN o.info.bads
                                  ELSE Append(o.info.bads, s.name)],
                      !.ver = o.ver + 1]]

\* raw.info['bads'] += [name]: list extension in place
bads_extend(st, s) ==
    LET id == st.ns[s.a]
        o == st.heap[id]
    IN  [st EXCEPT !.heap[id] =
            [o EXCEPT !.info = [o.info EXCEPT !.bads = Append(o.info.bads, s.name)],
                      !.ver = o.ver + 1]]

\* mutant: the filter works on the recording itself and returns it
maxwell_filter_InPlace(st, s) ==
    LET id == st.ns[s.a]
        o == st.heap[id]
        st1 == [st EXCEPT !.heap[id] =
                  [o EXCEPT !.info = [o.info EXCEPT
                                        !.bads = SelectSeq(o.info.bads,
                                                    LAMBDA b : ChType(b) \notin MegTypes),
                                        !.ssp = 0, !.sss = TRUE],
                            !.loaded = TRUE, !.ver = o.ver + 1]]
    IN  [st1 EXCEPT !.ns[s.dst] = id]

\* mne.preprocessing.maxwell_filter(raw, ...): returns a new recording; bad MEG
\* channels are reconstructed and the MEG projectors removed
maxwell_filter(st, s) ==
    LET o == Obj(st, s.a)
    IN  Alloc(st, s.dst,
              [o EXCEPT !.info = [o.info EXCEPT
                                    !.bads = SelectSeq(o.info.bads,
                                                LAMBDA b : ChType(b) \notin MegTypes),
                                    !.ssp = 0, !.sss = TRUE],
                        !.loaded = TRUE, !.ver = 0])

\* mne.find_events(raw): the events of the stim channel
find_events(st, s) ==
    LET o == Obj(st, s.a)
    IN  IF o.info.nch["stim"] = 0 THEN Raise(st, "ValueError")
        ELSE Alloc(st, s.dst, [kind |-> "events", codes |-> o.events])

\* mutant: event_id is only checked, every event gets an epoch
Epochs_AllEvents(st, s) ==
    LET r == Obj(st, s.a)
        e == Obj(st, s.b)
    IN  IF \E c \in s.event_id : c \notin Range(e.codes)
        THEN Raise(st, "ValueError")
        ELSE Alloc(st, s.dst,
                   [kind |-> "epochs", info |-> r.info,
                    sel |-> e.codes,
                    first |-> TimeToSample(EpochTminUs),
                    last |-> TimeToSample(EpochTmaxUs),
                    src |-> st.ns[s.a], loaded |-> FALSE, ver |-> 0])

\* mne.Epochs(raw, events, event_id=[...]): raises when a requested code has
\* no event; the windows run from tmin to tmax around each selected event
Epochs(st, s) ==
    LET r == Obj(st, s.a)
        e == Obj(st, s.b)
    IN  IF \E c \in s.event_id : c \notin Range(e.codes)
        THEN Raise(st, "ValueError")
        ELSE Alloc(st, s.dst,
                   [kind |-> "epochs", info |-> r.info,
                    sel |-> SelectSeq(e.codes, LAMBDA c : c \in s.event_id),
                    first |-> TimeToSample(EpochTminUs),
                    last |-> TimeToSample(EpochTmaxUs),
                    src |-> st.ns[s.a], loaded |-> FALSE, ver |-> 0])

\* epochs.average(): the evoked response over the data channels
average(st, s) ==
    LET e == Obj(st, s.a)
    IN  Alloc(st, s.dst,
              [kind |-> "evoked", info |-> PickInfo(e.info, DataTypes),
               nave |-> Len(e.sel), sel |-> e.sel,
               first |-> e.first, last |-> e.last,
               src |-> st.ns[s.a], sver |-> e.ver, ver |-> 0])

\* mne.read_forward_solution(fname): the channel types the file was computed for
read_forward_solution(st, s) ==
    Alloc(st, s.dst, [kind |-> "fwd", types |-> s.types, space |-> s.space,
                      ref |-> "average", ver |-> 0])

\* first and last sample of a window, clipped to the epoch
WinFirst(e, tmin) ==
    IF tmin = {} THEN e.first
    ELSE LET k == TimeToSample(CHOOSE t \in tmin : TRUE)
         IN  IF k < e.first THEN e.first ELSE k

\* mutant: tmax is not applied, the window runs to the end of the epoch
WinLast_ToEnd(e, tmax) == e.last

WinLast(e, tmax) ==
    IF tmax = {} THEN e.last
    ELSE LET k == TimeToSample(CHOOSE t \in tmax : TRUE)
         IN  IF k > e.last THEN e.last ELSE k

\* mne.compute_covariance(epochs, tmin=, tmax=, method=, rank=): over the good
\* data channels, all epochs and the samples of the window
compute_covariance(st, s) ==
    LET e == Obj(st, s.a)
        k0 == WinFirst(e, s.tmin)
        k1 == WinLast(e, s.tmax)
    IN  Alloc(st, s.dst,
              [kind |-> "cov", nch |-> GoodData(e.info), ref |-> e.info.ref,
               ssp |-> e.info.ssp, sss |-> e.info.sss,
               parts |-> << [src |-> st.ns[s.a], sver |-> e.ver,
                             k0 |-> k0, k1 |-> k1,
                             n |-> Len(e.sel) * (k1 - k0 + 1)] >>,
               ver |-> 0])

\* cov_a + cov_b: a new covariance pooling the samples of both
cov_add(st, s) ==
    LET a == Obj(st, s.a)
        b == Obj(st, s.b)
    IN  IF a.nch # b.nch THEN Raise(st, "ValueError")
        ELSE Alloc(st, s.dst, [a EXCEPT !.parts = a.parts \o b.parts, !.ver = 0])

\* ranks = {'eeg': 58}: a dictionary literal
rank_dict(st, s) == Alloc(st, s.dst, [kind |-> "rank", val |-> s.val, ver |-> 0])

\* any other value a cell binds (a plot handle, an index, a dictionary)
value(st, s) == Alloc(st, s.dst, [kind |-> "value", ver |-> 0])

\* effective rank of the Maxwell-filtered magnetometers
SSSRank == 72

\* rank='info': the rank of the channels of type t in a covariance, from the
\* good channels, the projectors and the Maxwell filter
CovRank(c, t) ==
    IF c.nch[t] = 0 THEN 0
    ELSE IF t \in MegTypes
         THEN IF c.sss THEN Min(c.nch[t], SSSRank) ELSE c.nch[t] - c.ssp
         ELSE c.nch[t] - (IF c.ref = "average" THEN 1 ELSE 0)

-----------------------------------------------------------------------------
(* The solvers.                                                            *)

\* channels a solver works on: good in info, present in forward and covariance
SolverNch(info, fwd, cov) ==
    [t \in DataTypes |->
        IF t \in fwd.types THEN Min(Good(info, t), cov.nch[t]) ELSE 0]

\* mutant: a beamformer built without reg= gets no diagonal loading
RegOf_NoLoading(s) == IF s.reg = {} THEN 0 ELSE CHOOSE r \in s.reg : TRUE

\* the regularization of a call, in per mille of the sensor power: the value
\* of reg= or, without it, the default
RegOf(s) == IF s.reg = {} THEN DefaultReg ELSE CHOOSE r \in s.reg : TRUE

\* make_lcmv(info, fwd, data_cov=, noise_cov=, reg=, pick_ori=, weight_norm=,
\* rank=): a new spatial filter
make_lcmv(st, s) ==
    LET e == Obj(st, s.info)
        c == Obj(st, s.data_cov)
    IN  Alloc(st, s.dst,
              [kind |-> "filters",
               nch |-> SolverNch(e.info, Obj(st, s.fwd), c),
               info_nch |-> GoodData(e.info),
               ref |-> e.info.ref,
               fwd |-> st.ns[s.fwd],
               data_cov |-> st.ns[s.data_cov], dver |-> c.ver,
               noise_cov |-> IF s.noise_cov = "" THEN 0 ELSE st.ns[s.noise_cov],
               reg |-> RegOf(s), reg_given |-> s.reg # {},
               pick_ori |-> s.pick_ori,
               weight_norm |-> s.weight_norm,
               rank |-> IF s.rank = "" THEN [t \in DataTypes |-> 0]
                        ELSE Obj(st, s.rank).val,
               is_free_ori |-> s.pick_ori \in {"None", "vector"},
               ver |-> 0])

\* mutant: the orientations are pooled whatever pick_ori says
NOrient_Pooled(f) == 1

\* values per source location and time point in the output of a filter
NOrient(f) == IF f.pick_ori = "vector" THEN 3 ELSE 1

\* apply_lcmv(evoked=, filters=): a new source estimate with a time course
apply_lcmv(st, s) ==
    LET e == Obj(st, s.a)
        f == Obj(st, s.b)
    IN  Alloc(st, s.dst,
              [kind |-> "stc", how |-> "lcmv",
               op |-> st.ns[s.b], opver |-> f.ver,
               input |-> st.ns[s.a], inver |-> e.ver,
               n_ori |-> NOrient(f), k0 |-> e.first, k1 |-> e.last,
               div |-> 0, ver |-> 0])

\* mutant: the application rescales the weights of the filter in place
apply_lcmv_cov_InPlace(st, s) ==
    LET c == Obj(st, s.a)
        f == Obj(st, s.b)
        st1 == [st EXCEPT !.heap[st.ns[s.b]] = [f EXCEPT !.ver = f.ver + 1]]
    IN  Alloc(st1, s.dst,
              [kind |-> "stc", how |-> "lcmv_cov",
               op |-> st.ns[s.b], opver |-> f.ver,
               input |-> st.ns[s.a], inver |-> c.ver,
               n_ori |-> IF f.pick_ori = "vector" THEN 3 ELSE 1,
               k0 |-> 0, k1 |-> 0, div |-> 0, ver |-> 0])

\* apply_lcmv_cov(cov, filters): a new source estimate holding source power
apply_lcmv_cov(st, s) ==
    LET c == Obj(st, s.a)
        f == Obj(st, s.b)
    IN  Alloc(st, s.dst,
              [kind |-> "stc", how |-> "lcmv_cov",
               op |-> st.ns[s.b], opver |-> f.ver,
               input |-> st.ns[s.a], inver |-> c.ver,
               n_ori |-> NOrient(f), k0 |-> 0, k1 |-> 0,
               div |-> 0, ver |-> 0])

\* make_inverse_operator(info, fwd, noise_cov): a new minimum-norm operator
make_inverse_operator(st, s) ==
    LET e == Obj(st, s.info)
        c == Obj(st, s.noise_cov)
    IN  Alloc(st, s.dst,
              [kind |-> "inv",
               nch |-> SolverNch(e.info, Obj(st, s.fwd), c),
               info_nch |-> GoodData(e.info),
               ref |-> e.info.ref,
               fwd |-> st.ns[s.fwd],
               noise_cov |-> st.ns[s.noise_cov], nver |-> c.ver,
               ver |-> 0])

\* apply_inverse(evoked, inv, method='dSPM'): a new source estimate
apply_inverse(st, s) ==
    LET e == Obj(st, s.a)
        f == Obj(st, s.b)
    IN  Alloc(st, s.dst,
              [kind |-> "stc", how |-> "dSPM",
               op |-> st.ns[s.b], opver |-> f.ver,
               input |-> st.ns[s.a], inver |-> e.ver,
               n_ori |-> 1, k0 |-> e.first, k1 |-> e.last,
               div |-> 0, ver |-> 0])

\* stc.crop(tmin, tmax): shortens the time axis in place and returns stc
crop(st, s) ==
    LET id == st.ns[s.a]
        o == st.heap[id]
        k0 == TimeToSample(s.tmin)
        k1 == TimeToSample(s.tmax)
    IN  [st EXCEPT !.heap[id] =
            [o EXCEPT !.k0 = IF k0 > o.k0 THEN k0 ELSE o.k0,
                      !.k1 = IF k1 < o.k1 THEN k1 ELSE o.k1,
                      !.ver = o.ver + 1]]

\* stc_a /= stc_b: divides the data of stc_a in place
idiv(st, s) ==
    LET id == st.ns[s.a]
        o == st.heap[id]
    IN  [st EXCEPT !.heap[id] = [o EXCEPT !.div = st.ns[s.b], !.ver = o.ver + 1]]

-----------------------------------------------------------------------------
(* Running statements and cells.                                           *)

\* the names a statement reads
Reads(s) ==
    CASE s.op \in {"read_raw_fif", "read_forward_solution", "rank_dict"} -> {}
      [] s.op \in {"plot", "value"} -> s.reads
      [] s.op \in {"make_lcmv"} ->
            {s.info, s.fwd, s.data_cov} \cup ({s.noise_cov, s.rank} \ {""})
      [] s.op \in {"make_inverse_operator"} -> {s.info, s.fwd, s.noise_cov}
      [] s.op \in {"Epochs", "cov_add", "apply_lcmv", "apply_lcmv_cov",
                   "apply_inverse", "idiv"} -> {s.a, s.b}
      [] OTHER -> {s.a}

\* one statement; an undefined name raises NameError, an exception ends the cell
Exec(s, st) ==
    IF st.err # "" THEN st
    ELSE IF ~Defined(st, Reads(s)) THEN Raise(st, "NameError")
    ELSE CASE s.op = "read_raw_fif" -> read_raw_fif(st, s)
           [] s.op = "pick" -> pick(st, s)
           [] s.op = "load_data" -> load_data(st, s)
           [] s.op = "copy" -> copy(st, s)
           [] s.op = "set_eeg_reference" -> set_eeg_reference(st, s)
           [] s.op = "bads_extend" -> bads_extend(st, s)
           [] s.op = "maxwell_filter" -> maxwell_filter(st, s)
           [] s.op = "find_events" -> find_events(st, s)
           [] s.op = "Epochs" -> Epochs(st, s)
           [] s.op = "average" -> average(st, s)
           [] s.op = "read_forward_solution" -> read_forward_solution(st, s)
           [] s.op = "compute_covariance" -> compute_covariance(st, s)
           [] s.op = "cov_add" -> cov_add(st, s)
           [] s.op = "rank_dict" -> rank_dict(st, s)
           [] s.op = "value" -> value(st, s)
           [] s.op = "make_lcmv" -> make_lcmv(st, s)
           [] s.op = "apply_lcmv" -> apply_lcmv(st, s)
           [] s.op = "apply_lcmv_cov" -> apply_lcmv_cov(st, s)
           [] s.op = "make_inverse_operator" -> make_inverse_operator(st, s)
           [] s.op = "apply_inverse" -> apply_inverse(st, s)
           [] s.op = "crop" -> crop(st, s)
           [] s.op = "idiv" -> idiv(st, s)
           [] OTHER -> st

RECURSIVE ExecAll(_, _)
ExecAll(stmts, st) ==
    IF stmts = <<>> THEN st
    ELSE ExecAll(Tail(stmts), Exec(Head(stmts), st))

\* statement builders
Plot(names) == [op |-> "plot", reads |-> names]

Lcmv(dst, info, fwd, data_cov, noise_cov, reg, pick_ori, weight_norm, rank) ==
    [op |-> "make_lcmv", dst |-> dst, info |-> info, fwd |-> fwd,
     data_cov |-> data_cov, noise_cov |-> noise_cov, reg |-> reg,
     pick_ori |-> pick_ori, weight_norm |-> weight_norm, rank |-> rank]

Cov(dst, epochs, tmin, tmax) ==
    [op |-> "compute_covariance", dst |-> dst, a |-> epochs,
     tmin |-> tmin, tmax |-> tmax]

Crop(a, tmin, tmax) == [op |-> "crop", a |-> a, tmin |-> tmin, tmax |-> tmax]

Call(op, dst, a, b) == [op |-> op, dst |-> dst, a |-> a, b |-> b]

-----------------------------------------------------------------------------
(* Beamforming_best_practices.ipynb, one definition per code cell, named   *)
(* by the line the cell starts at.                                         *)

BP_32 == [line |-> 32, stmts |-> <<>>]

BP_63 == [line |-> 63, stmts |-> <<
    [op |-> "read_raw_fif", dst |-> "raw"],
    [op |-> "pick", a |-> "raw", picks |-> {"mag", "stim"}] >>]

BP_84 == [line |-> 84, stmts |-> <<
    Call("find_events", "events", "raw", ""),
    [op |-> "Epochs", dst |-> "epochs", a |-> "raw", b |-> "events",
     event_id |-> {3, 4}],
    Call("average", "evoked", "epochs", "") >>]

BP_102 == [line |-> 102, stmts |-> << Plot({"evoked"}) >>]

BP_124 == [line |-> 124, stmts |-> <<
    [op |-> "read_forward_solution", dst |-> "fwd_meg", types |-> MegTypes,
     space |-> "vol"] >>]

BP_142 == [line |-> 142, stmts |-> << Cov("data_cov", "epochs", {0}, {150000}) >>]

BP_198 == [line |-> 198, stmts |-> <<
    Lcmv("filters", "epochs", "fwd_meg", "data_cov", "", {},
         "max-power", "None", ""),
    Call("apply_lcmv", "stc", "evoked", "filters") >>]

BP_217 == [line |-> 217, stmts |-> <<
    Crop("stc", -50000, 150000), Plot({"stc", "fwd_meg"}) >>]

BP_280 == [line |-> 280, stmts |-> << Plot({"data_cov", "evoked"}) >>]

BP_331 == [line |-> 331, stmts |-> <<
    Lcmv("filters", "epochs", "fwd_meg", "data_cov", "", {0},
         "max-power", "unit-noise-gain-invariant", ""),
    Call("apply_lcmv", "stc", "evoked", "filters"),
    Crop("stc", -50000, 150000), Plot({"stc", "fwd_meg"}) >>]

BP_375 == [line |-> 375, stmts |-> <<
    Lcmv("filters", "epochs", "fwd_meg", "data_cov", "", {},
         "None", "unit-noise-gain-invariant", ""),
    Call("apply_lcmv", "stc", "evoked", "filters"),
    Crop("stc", -50000, 150000), Plot({"stc", "fwd_meg"}) >>]

BP_395 == [line |-> 395, stmts |-> <<
    Lcmv("filters", "epochs", "fwd_meg", "data_cov", "", {},
         "vector", "unit-noise-gain-invariant", ""),
    Call("apply_lcmv", "stc_vec", "evoked", "filters"),
    Crop("stc_vec", -50000, 150000), Plot({"stc_vec", "fwd_meg"}) >>]

BP_427 == [line |-> 427, stmts |-> <<
    [op |-> "value", dst |-> "peak_vox", reads |-> {"stc_vec"}],
    Plot({"stc_vec", "peak_vox"}) >>]

\* mutant: the activity window is longer than the baseline window
BP_483_LongActivity == [line |-> 483, stmts |-> <<
    Cov("cov_base", "epochs", {-150000}, {-50000}),
    Cov("cov_acti", "epochs", {50000}, {200000}),
    Call("cov_add", "cov_common", "cov_base", "cov_acti") >>]

BP_483 == [line |-> 483, stmts |-> <<
    Cov("cov_base", "epochs", {-150000}, {-50000}),
    Cov("cov_acti", "epochs", {50000}, {150000}),
    Call("cov_add", "cov_common", "cov_base", "cov_acti") >>]

BP_503 == [line |-> 503, stmts |-> << Plot({"cov_common", "evoked"}) >>]

BP_519 == [line |-> 519, stmts |-> <<
    Lcmv("filters", "epochs", "fwd_meg", "cov_common", "", {},
         "max-power", "unit-noise-gain-invariant", "") >>]

\* mutant: a filter of the activity condition is derived between the applications
BP_537_PerCondition == [line |-> 537, stmts |-> <<
    Call("apply_lcmv_cov", "stc_base", "cov_base", "filters"),
    Lcmv("filters", "epochs", "fwd_meg", "cov_acti", "", {},
         "max-power", "unit-noise-gain-invariant", ""),
    Call("apply_lcmv_cov", "stc_acti", "cov_acti", "filters") >>]

BP_537 == [line |-> 537, stmts |-> <<
    Call("apply_lcmv_cov", "stc_base", "cov_base", "filters"),
    Call("apply_lcmv_cov", "stc_acti", "cov_acti", "filters") >>]

BP_555 == [line |-> 555, stmts |-> <<
    Call("copy", "stc_diff", "stc_acti", ""),
    Call("idiv", "", "stc_diff", "stc_base"),
    Plot({"stc_diff", "fwd_meg"}) >>]

\* mutant: the first beamformer cell comes before the covariance cell
BestPractices_FilterFirst ==
    << BP_32, BP_63, BP_84, BP_102, BP_124, BP_198, BP_142, BP_217, BP_280,
       BP_331, BP_375, BP_395, BP_427, BP_483, BP_503, BP_519, BP_537, BP_555 >>

BestPractices ==
    << BP_32, BP_63, BP_84, BP_102, BP_124, BP_142, BP_198, BP_217, BP_280,
       BP_331, BP_375, BP_395, BP_427, BP_483, BP_503, BP_519, BP_537, BP_555 >>

-----------------------------------------------------------------------------
(* Source_reconstruction_with_EEG.ipynb                                    *)

EEG_23 == [line |-> 23, stmts |-> <<>>]

EEG_54 == [line |-> 54, stmts |-> <<
    [op |-> "read_raw_fif", dst |-> "raw"],
    [op |-> "pick", a |-> "raw", picks |-> {"eeg", "stim"}],
    Call("load_data", "", "raw", "") >>]

EEG_87 == [line |-> 87, stmts |-> << Call("set_eeg_reference", "", "raw", "") >>]

EEG_106 == [line |-> 106, stmts |-> <<
    Call("find_events", "events", "raw", ""),
    [op |-> "Epochs", dst |-> "epochs", a |-> "raw", b |-> "events",
     event_id |-> {1, 2}],
    Call("average", "evoked", "epochs", ""),
    Plot({"evoked"}) >>]

EEG_144 == [line |-> 144, stmts |-> <<
    [op |-> "read_forward_solution", dst |-> "fwd", types |-> {"eeg"},
     space |-> "surf"] >>]

EEG_169 == [line |-> 169, stmts |-> <<
    Cov("noise_cov", "epochs", {}, {0}),
    [op |-> "make_inverse_operator", dst |-> "inv", info |-> "evoked",
     fwd |-> "fwd", noise_cov |-> "noise_cov"],
    Call("apply_inverse", "stc_mne", "evoked", "inv") >>]

EEG_197 == [line |-> 197, stmts |-> <<
    Crop("stc_mne", -10000, 200000), Plot({"stc_mne"}) >>]

EEG_252 == [line |-> 252, stmts |-> << Cov("data_cov", "epochs", {0}, {200000}) >>]

EEG_269 == [line |-> 269, stmts |-> << Plot({"data_cov", "epochs"}) >>]

\* mutant: the dictionary holds a rank above the number of EEG channels
EEG_297_TooLarge == [line |-> 297, stmts |-> <<
    [op |-> "rank_dict", dst |-> "ranks",
     val |-> [t \in DataTypes |-> IF t = "eeg" THEN 61 ELSE 0]] >>]

EEG_297 == [line |-> 297, stmts |-> <<
    [op |-> "rank_dict", dst |-> "ranks",
     val |-> [t \in DataTypes |-> IF t = "eeg" THEN 58 ELSE 0]] >>]

\* mutant: the beamformer is built without the dictionary of ranks
EEG_327_NoRank == [line |-> 327, stmts |-> <<
    Lcmv("filters", "epochs", "fwd", "data_cov", "", {},
         "max-power", "unit-noise-gain-invariant", ""),
    Call("apply_lcmv", "stc_lcmv", "evoked", "filters") >>]

EEG_327 == [line |-> 327, stmts |-> <<
    Lcmv("filters", "epochs", "fwd", "data_cov", "", {},
         "max-power", "unit-noise-gain-invariant", "ranks"),
    Call("apply_lcmv", "stc_lcmv", "evoked", "filters") >>]

EEG_346 == [line |-> 346, stmts |-> <<
    Crop("stc_lcmv", -10000, 200000), Plot({"stc_lcmv"}) >>]

SourceReconstructionEEG ==
    << EEG_23, EEG_54, EEG_87, EEG_106, EEG_144, EEG_169, EEG_197, EEG_252,
       EEG_269, EEG_297, EEG_327, EEG_346 >>

-----------------------------------------------------------------------------
(* Combining channel types (src/unnamed/part_000)                          *)

CCT_23 == [line |-> 23, stmts |-> <<>>]

CCT_54 == [line |-> 54, stmts |-> << [op |-> "read_raw_fif", dst |-> "raw"] >>]

\* mutant: the cell does not set the reference
CCT_72_NoReference == [line |-> 72, stmts |-> <<>>]

CCT_72 == [line |-> 72, stmts |-> << Call("set_eeg_reference", "", "raw", "") >>]

CCT_92 == [line |-> 92, stmts |-> <<
    Call("find_events", "events", "raw", ""),
    [op |-> "Epochs", dst |-> "epochs", a |-> "raw", b |-> "events",
     event_id |-> {3, 4}] >>]

CCT_122 == [line |-> 122, stmts |-> <<
    [op |-> "read_forward_solution", dst |-> "fwd_meg", types |-> MegTypes,
     space |-> "surf"] >>]

CCT_142 == [line |-> 142, stmts |-> <<
    Call("load_data", "", "epochs", ""),
    Call("copy", "epochs_meg", "epochs", ""),
    [op |-> "pick", a |-> "epochs_meg", picks |-> {"mag", "grad"}],
    Call("average", "evoked_meg", "epochs_meg", ""),
    Plot({"evoked_meg"}) >>]

CCT_191 == [line |-> 191, stmts |-> <<
    Cov("data_cov", "epochs_meg", {0}, {150000}),
    Cov("noise_cov", "epochs_meg", {-150000}, {0}) >>]

CCT_212 == [line |-> 212, stmts |-> << Plot({"data_cov", "epochs"}) >>]

CCT_242 == [line |-> 242, stmts |-> <<
    Lcmv("filters", "epochs_meg", "fwd_meg", "data_cov", "noise_cov",
         {}, "max-power", "unit-noise-gain-invariant", ""),
    Call("apply_lcmv", "stc_meg", "evoked_meg", "filters") >>]

CCT_261 == [line |-> 261, stmts |-> <<
    Crop("stc_meg", -10000, 150000), Plot({"stc_meg"}) >>]

CCT_295 == [line |-> 295, stmts |-> <<
    [op |-> "read_forward_solution", dst |-> "fwd_meeg", types |-> DataTypes,
     space |-> "surf"] >>]

CCT_315 == [line |-> 315, stmts |-> <<
    Call("average", "evoked", "epochs", ""), Plot({"evoked"}) >>]

\* mutant: the noise window runs on into the response
CCT_334_LateNoise == [line |-> 334, stmts |-> <<
    Cov("data_cov", "epochs", {0}, {150000}),
    Cov("noise_cov", "epochs", {-150000}, {50000}) >>]

CCT_334 == [line |-> 334, stmts |-> <<
    Cov("data_cov", "epochs", {0}, {150000}),
    Cov("noise_cov", "epochs", {-150000}, {0}) >>]

\* mutant: the combined beamformer is built from the data covariance alone
CCT_355_NoNoiseCov == [line |-> 355, stmts |-> <<
    Lcmv("filters", "epochs", "fwd_meeg", "data_cov", "",
         {}, "max-power", "unit-noise-gain-invariant", ""),
    Call("apply_lcmv", "stc_meg", "evoked", "filters") >>]

CCT_355 == [line |-> 355, stmts |-> <<
    Lcmv("filters", "epochs", "fwd_meeg", "data_cov", "noise_cov",
         {}, "max-power", "unit-noise-gain-invariant", ""),
    Call("apply_lcmv", "stc_meg", "evoked", "filters") >>]

CCT_366 == [line |-> 366, stmts |-> <<
    Crop("stc_meg", -10000, 150000), Plot({"stc_meg"}) >>]

CCT_406 == [line |-> 406, stmts |-> <<
    [op |-> "value", dst |-> "sens_map_mag", reads |-> {"fwd_meeg"}] >>]

CCT_415 == [line |-> 415, stmts |-> <<
    [op |-> "value", dst |-> "clim", reads |-> {}],
    [op |-> "value", dst |-> "brain", reads |-> {"sens_map_mag", "clim"}],
    Plot({"brain"}) >>]

CCT_435 == [line |-> 435, stmts |-> <<
    [op |-> "value", dst |-> "sens_map_eeg", reads |-> {"fwd_meeg"}] >>]

CCT_444 == [line |-> 444, stmts |-> <<
    [op |-> "value", dst |-> "brain", reads |-> {"sens_map_eeg", "clim"}],
    Plot({"brain"}) >>]

CombiningChannelTypes ==
    << CCT_23, CCT_54, CCT_72, CCT_92, CCT_122, CCT_142, CCT_191, CCT_212,
       CCT_242, CCT_261, CCT_295, CCT_315, CCT_334, CCT_355, CCT_366,
       CCT_406, CCT_415, CCT_435, CCT_444 >>

-----------------------------------------------------------------------------
(* Working with Maxwell-filtered data (src/unnamed/part_002)               *)

SSS_25 == [line |-> 25, stmts |-> <<>>]

SSS_58 == [line |-> 58, stmts |-> <<
    [op |-> "read_raw_fif", dst |-> "raw"],
    [op |-> "pick", a |-> "raw", picks |-> {"grad", "mag", "stim"}] >>]

SSS_84 == [line |-> 84, stmts |-> <<
    [op |-> "bads_extend", a |-> "raw", name |-> "MEG 2313"] >>]

SSS_100 == [line |-> 100, stmts |-> << Plot({"raw"}) >>]

SSS_118 == [line |-> 118, stmts |-> <<
    Call("maxwell_filter", "raw_sss", "raw", "") >>]

\* mutant: the Maxwell-filtered epochs are cut around one of the two codes only
SSS_141_OtherEvents == [line |-> 141, stmts |-> <<
    Call("find_events", "events", "raw", ""),
    [op |-> "Epochs", dst |-> "epochs_orig", a |-> "raw", b |-> "events",
     event_id |-> {3, 4}],
    Call("average", "evoked_orig", "epochs_orig", ""),
    [op |-> "Epochs", dst |-> "epochs_sss", a |-> "raw_sss", b |-> "events",
     event_id |-> {4}],
    Call("average", "evoked_sss", "epochs_sss", "") >>]

SSS_141 == [line |-> 141, stmts |-> <<
    Call("find_events", "events", "raw", ""),
    [op |-> "Epochs", dst |-> "epochs_orig", a |-> "raw", b |-> "events",
     event_id |-> {3, 4}],
    Call("average", "evoked_orig", "epochs_orig", ""),
    [op |-> "Epochs", dst |-> "epochs_sss", a |-> "raw_sss", b |-> "events",
     event_id |-> {3, 4}],
    Call("average", "evoked_sss", "epochs_sss", "") >>]

SSS_162 == [line |-> 162, stmts |-> << Plot({"evoked_orig", "evoked_sss"}) >>]

SSS_199 == [line |-> 199, stmts |-> <<
    Cov("data_cov", "epochs_orig", {50000}, {150000}) >>]

SSS_210 == [line |-> 210, stmts |-> << Plot({"data_cov", "epochs_orig"}) >>]

SSS_265 == [line |-> 265, stmts |-> <<
    [op |-> "read_forward_solution", dst |-> "fwd_meg", types |-> MegTypes,
     space |-> "vol"] >>]

\* mutant: the average is not taken again after the selection
SSS_276_NoAverage == [line |-> 276, stmts |-> <<
    Call("load_data", "", "epochs_sss", ""),
    [op |-> "pick", a |-> "epochs_sss", picks |-> {"mag"}] >>]

SSS_276 == [line |-> 276, stmts |-> <<
    Call("load_data", "", "epochs_sss", ""),
    [op |-> "pick", a |-> "epochs_sss", picks |-> {"mag"}],
    Call("average", "evoked_sss", "epochs_sss", "") >>]

\* mutant: the covariance is computed from the epochs not yet reduced
SSS_287_FromOrig == [line |-> 287, stmts |-> <<
    Cov("data_cov_sss", "epochs_orig", {50000}, {150000}) >>]

SSS_287 == [line |-> 287, stmts |-> <<
    Cov("data_cov_sss", "epochs_sss", {50000}, {150000}) >>]

SSS_319 == [line |-> 319, stmts |-> <<
    Lcmv("filters", "epochs_sss", "fwd_meg", "data_cov_sss", "", {0},
         "max-power", "unit-noise-gain-invariant", ""),
    Call("apply_lcmv", "stc_sss", "evoked_sss", "filters") >>]

SSS_338 == [line |-> 338, stmts |-> <<
    Crop("stc_sss", -10000, 150000), Plot({"stc_sss", "fwd_meg"}) >>]

SSS_360 == [line |-> 360, stmts |-> <<
    Call("load_data", "", "epochs_orig", ""),
    [op |-> "pick", a |-> "epochs_orig", picks |-> {"mag"}],
    Call("average", "evoked_orig", "epochs_orig", ""),
    Cov("data_cov_orig", "epochs_orig", {50000}, {150000}),
    Lcmv("filters", "epochs_orig", "fwd_meg", "data_cov_orig", "", {0},
         "max-power", "unit-noise-gain-invariant", ""),
    Call("apply_lcmv", "stc_orig", "evoked_orig", "filters"),
    Crop("stc_orig", -50000, 150000), Plot({"stc_orig", "fwd_meg"}) >>]

SSS_421 == [line |-> 421, stmts |-> <<
    Lcmv("filters", "epochs_sss", "fwd_meg", "data_cov_sss", "", {100},
         "max-power", "unit-noise-gain-invariant", ""),
    Call("apply_lcmv", "stc_meg", "evoked_sss", "filters"),
    Crop("stc_meg", -50000, 150000), Plot({"stc_meg", "fwd_meg"}) >>]

\* mutant: the dictionary is made but not handed to make_lcmv
SSS_459_RankDropped == [line |-> 459, stmts |-> <<
    [op |-> "rank_dict", dst |-> "data_rank",
     val |-> [t \in DataTypes |-> IF t = "mag" THEN 72 ELSE 0]],
    Lcmv("filters", "epochs_sss", "fwd_meg", "data_cov_sss", "", {},
         "max-power", "unit-noise-gain-invariant", ""),
    Call("apply_lcmv", "stc_meg", "evoked_sss", "filters"),
    Crop("stc_meg", -50000, 150000), Plot({"stc_meg", "fwd_meg"}) >>]

SSS_459 == [line |-> 459, stmts |-> <<
    [op |-> "rank_dict", dst |-> "data_rank",
     val |-> [t \in DataTypes |-> IF t = "mag" THEN 72 ELSE 0]],
    Lcmv("filters", "epochs_sss", "fwd_meg", "data_cov_sss", "", {},
         "max-power", "unit-noise-gain-invariant", "data_rank"),
    Call("apply_lcmv", "stc_meg", "evoked_sss", "filters"),
    Crop("stc_meg", -50000, 150000), Plot({"stc_meg", "fwd_meg"}) >>]

SSS_495 == [line |-> 495, stmts |-> <<
    Cov("noise_cov_sss", "epochs_sss", {}, {0}),
    Lcmv("filters", "epochs_sss", "fwd_meg", "data_cov_sss", "noise_cov_sss",
         {0}, "max-power", "unit-noise-gain-invariant", ""),
    Call("apply_lcmv", "stc_meg", "evoked_sss", "filters"),
    Crop("stc_meg", -50000, 150000), Plot({"stc_meg", "fwd_meg"}) >>]

SSS_535 == [line |-> 535, stmts |-> <<
    [op |-> "read_forward_solution", dst |-> "fwd", types |-> MegTypes,
     space |-> "surf"],
    [op |-> "make_inverse_operator", dst |-> "inv", info |-> "evoked_sss",
     fwd |-> "fwd", noise_cov |-> "noise_cov_sss"],
    Call("apply_inverse", "stc_mne", "evoked_sss", "inv"),
    Crop("stc_mne", -50000, 150000), Plot({"stc_mne"}) >>]

MaxwellFiltered ==
    << SSS_25, SSS_58, SSS_84, SSS_100, SSS_118, SSS_141, SSS_162, SSS_199,
       SSS_210, SSS_265, SSS_276, SSS_287, SSS_319, SSS_338, SSS_360,
       SSS_421, SSS_459, SSS_495, SSS_535 >>

-----------------------------------------------------------------------------
(* A run: one notebook, its cells executed once from top to bottom.  An    *)
(* exception stops the run in the cell that raised it.                     *)

Notebooks == {"BP", "EEG", "CCT", "SSS"}

CellsOf(n) ==
    CASE n = "BP" -> BestPractices
      [] n = "EEG" -> SourceReconstructionEEG
      [] n = "CCT" -> CombiningChannelTypes
      [] OTHER -> MaxwellFiltered

Init ==
    /\ nb \in Notebooks
    /\ pc = 1
    /\ ns = [n \in Names |-> 0]
    /\ heap = <<>>
    /\ status = "running"
    /\ disk \in Disks
    /\ reruns = 0

\* execute the cell at pc of notebook n
RunCell(n) ==
    /\ nb = n
    /\ status = "running"
    /\ pc \in 1..Len(CellsOf(n))
    /\ LET st == ExecAll(CellsOf(n)[pc].stmts,
                         [ns |-> ns, heap |-> heap, err |-> ""])
       IN  /\ ns' = st.ns
           /\ heap' = st.heap
           /\ IF st.err # ""
              THEN status' = "error" /\ pc' = pc
              ELSE /\ pc' = pc + 1
                   /\ status' = IF pc = Len(CellsOf(n)) THEN "done" ELSE "running"
    /\ UNCHANGED <<nb, disk, reruns>>

RunBestPractices == RunCell("BP")
RunSourceReconstructionEEG == RunCell("EEG")
RunCombiningChannelTypes == RunCell("CCT")
RunMaxwellFiltered == RunCell("SSS")

Next ==
    \/ RunBestPractices
    \/ RunSourceReconstructionEEG
    \/ RunCombiningChannelTypes
    \/ RunMaxwellFiltered

Spec == Init /\ [][Next]_vars

\* an interactive session: a cell that was executed is executed again, in the
\* kernel state the session has reached
RerunCell ==
    /\ status \in {"running", "done"}
    /\ reruns < MaxReruns
    /\ \E k \in 1..(pc - 1) :
         LET st == ExecAll(CellsOf(nb)[k].stmts,
                           [ns |-> ns, heap |-> heap, err |-> ""])
         IN  /\ ns' = st.ns
             /\ heap' = st.heap
             /\ status' = IF st.err # "" THEN "error" ELSE status
    /\ reruns' = reruns + 1
    /\ UNCHANGED <<nb, pc, disk>>

NextRerun == Next \/ RerunCell

\* the session works on the recording as shipped: every trigger code occurs
SessionDisks ==
    { [events |-> <<1, 2, 3, 4, 5>>, bads |-> b, ssp |-> MaxProj] :
        b \in DiskBadsChoices }

InitRerun ==
    /\ nb \in Notebooks
    /\ pc = 1
    /\ ns = [n \in Names |-> 0]
    /\ heap = <<>>
    /\ status = "running"
    /\ disk \in SessionDisks
    /\ reruns = 0

SpecRerun == InitRerun /\ [][NextRerun]_vars

TypeOK ==
    /\ nb \in Notebooks
    /\ pc \in 1..20
    /\ status \in {"running", "done", "error"}
    /\ \A n \in Names : ns[n] \in 0..Len(heap)
    /\ reruns \in 0..MaxReruns

-----------------------------------------------------------------------------
(* Properties.                                                             *)

Ids == DOMAIN heap

OfKind(k) == { i \in Ids : heap[i].kind = k }

Bound(n) == ns[n] # 0

\* the power estimates of the condition contrast exist
ContrastDone == nb = "BP" /\ Bound("stc_base") /\ Bound("stc_acti")

\* C1: in the condition contrast exactly one filter is derived, from the pooled
\* covariance cov_common; that same filter object, unmodified, is applied to
\* cov_base and to cov_acti; no filter is derived between the two applications
\* and no filter derived from a single condition is used for a power estimate.
C1_OneCommonFilter ==
    ContrastDone =>
        LET sb == heap[ns["stc_base"]]
            sa == heap[ns["stc_acti"]]
        IN  /\ sb.how = "lcmv_cov" /\ sa.how = "lcmv_cov"
            /\ sb.op = sa.op
            /\ heap[sb.op].kind = "filters"
            /\ heap[sb.op].data_cov = ns["cov_common"]
            /\ heap[ns["cov_common"]].parts =
                  heap[ns["cov_base"]].parts \o heap[ns["cov_acti"]].parts
            /\ sb.input = ns["cov_base"] /\ sa.input = ns["cov_acti"]
            /\ sb.opver = 0 /\ sa.opver = 0 /\ heap[sb.op].ver = 0
            /\ Cardinality({ f \in OfKind("filters") :
                               heap[f].data_cov = ns["cov_common"] }) = 1
            /\ \A i \in Ids :
                  (ns["stc_base"] < i /\ i < ns["stc_acti"])
                     => heap[i].kind # "filters"
            /\ \A s \in OfKind("stc") :
                  heap[s].how = "lcmv_cov"
                     => heap[heap[s].op].data_cov
                           \notin {ns["cov_base"], ns["cov_acti"]}

C1_Witness == ContrastDone /\ status = "done"

\* C2: the pooled covariance is built from two windows of the same epoch
\* collection that have the same length, so that baseline and activity
\* contribute the same number of samples to cov_common.
C2_EqualPooling ==
    (nb = "BP" /\ Bound("cov_common")) =>
        LET p == heap[ns["cov_common"]].parts
        IN  /\ Len(p) = 2
            /\ p[1] = heap[ns["cov_base"]].parts[1]
            /\ p[2] = heap[ns["cov_acti"]].parts[1]
            /\ p[1].src = p[2].src /\ p[1].sver = p[2].sver
            /\ heap[p[1].src].kind = "epochs"
            /\ p[1].k1 - p[1].k0 = p[2].k1 - p[2].k0
            /\ p[1].k1 < p[2].k0
            /\ p[1].n = p[2].n /\ p[1].n > 0

C2_Witness ==
    /\ nb = "BP" /\ Bound("cov_common")
    /\ heap[ns["cov_common"]].parts[1].n >= 2 * 61

CovNames == {"data_cov", "noise_cov", "data_cov_sss", "data_cov_orig",
             "noise_cov_sss", "cov_base", "cov_acti", "cov_common"}

\* what an application returned: the estimate is a function of the content of
\* the filter and of the input it was applied to
StcValue(st, name) ==
    LET o == st.heap[st.ns[name]]
    IN  [how |-> o.how, op |-> o.op, opver |-> o.opver,
         input |-> o.input, inver |-> o.inver,
         n_ori |-> o.n_ori, k0 |-> o.k0, k1 |-> o.k1, div |-> o.div]

ApplyPair(x, y) ==
    << Call("apply_lcmv_cov", "stc_base", x, "filters"),
       Call("apply_lcmv_cov", "stc_acti", y, "filters") >>

ApplyPairSwapped(x, y) == << ApplyPair(x, y)[2], ApplyPair(x, y)[1] >>

SameApplication(i, j) ==
    /\ heap[i].kind = "stc" /\ heap[j].kind = "stc"
    /\ heap[i].how = "lcmv_cov" /\ heap[j].how = "lcmv_cov"
    /\ heap[i].op = heap[j].op /\ heap[i].input = heap[j].input

C6_RankWithinChannels ==
    /\ \A c \in OfKind("cov") : \A t \in DataTypes :
          /\ heap[c].nch[t] - CovRank(heap[c], t) >= 0
          /\ CovRank(heap[c], t) >= 0
    /\ \A f \in OfKind("filters") : \A t \in DataTypes :
          heap[f].rank[t] <= heap[heap[f].data_cov].nch[t]

C6_Witness ==
    \E f \in OfKind("filters") :
        /\ heap[f].rank["mag"] = SSSRank
        /\ heap[heap[f].data_cov].sss
        /\ heap[heap[f].data_cov].nch["mag"] - CovRank(heap[heap[f].data_cov], "mag") > 0

\* rank-reducing steps behind the EEG part of a covariance: bad channels left
\* out and the average reference projector
EEGStepsRemoved(c) ==
    (NEEG - c.nch["eeg"]) + (IF c.ref = "average" THEN 1 ELSE 0)

\* C7: a covariance of the 60-channel EEG recording with two degrees of
\* freedom removed (average reference and one more step) has rank 58, and the
\* beamformer built from it is handed the rank 58 for the EEG channels.
C7_Rank58 ==
    nb = "EEG" =>
        /\ \A c \in OfKind("cov") :
              (NEEG = 60 /\ EEGStepsRemoved(heap[c]) = 2)
                 => CovRank(heap[c], "eeg") = 58
        /\ \A f \in OfKind("filters") :
              EEGStepsRemoved(heap[heap[f].data_cov]) = 2
                 => /\ heap[f].rank["eeg"] = 58
                    /\ heap[f].rank["eeg"] = CovRank(heap[heap[f].data_cov], "eeg")

C7_Witness ==
    /\ nb = "EEG" /\ Bound("filters") /\ Bound("stc_lcmv")
    /\ heap[heap[ns["filters"]].data_cov].nch["eeg"] = 59
    /\ heap[heap[ns["filters"]].data_cov].ref = "average"

HasEEG(nch) == nch["eeg"] > 0

\* C8: whatever is cut or computed from EEG channels carries the average
\* reference: the epochs and what is derived from them, every beamformer and
\* inverse operator and the forward operator it is built with; the recording
\* the epochs were cut from still has the average reference.
C8_AverageReference ==
    /\ \A e \in OfKind("epochs") :
          HasEEG(heap[e].info.nch) =>
             /\ heap[e].info.ref = "average"
             /\ heap[heap[e].src].info.ref = "average"
    /\ \A e \in OfKind("evoked") :
          HasEEG(heap[e].info.nch) => heap[e].info.ref = "average"
    /\ \A c \in OfKind("cov") :
          HasEEG(heap[c].nch) => heap[c].ref = "average"
    /\ \A f \in OfKind("filters") \cup OfKind("inv") :
          HasEEG(heap[f].nch) =>
             /\ heap[f].ref = "average"
             /\ heap[heap[f].fwd].ref = heap[f].ref

C8_Witness ==
    /\ nb = "CCT" /\ status = "done"
    /\ \E f \in OfKind("filters") : HasEEG(heap[f].nch)

SensorTypes(f) == { t \in DataTypes : f.nch[t] > 0 }

\* C9: every beamformer built on more than one sensor type was given a noise
\* covariance.
C9_NoiseCovForCombined ==
    \A f \in OfKind("filters") :
        Cardinality(SensorTypes(heap[f])) > 1 =>
            /\ heap[f].noise_cov # 0
            /\ heap[heap[f].noise_cov].kind = "cov"

C9_Witness ==
    /\ \E f \in OfKind("filters") : SensorTypes(heap[f]) = {"mag", "grad"}
    /\ \E f \in OfKind("filters") : SensorTypes(heap[f]) = DataTypes

AppliedWith(s, ori) ==
    /\ heap[s].kind = "stc" /\ heap[s].how \in {"lcmv", "lcmv_cov"}
    /\ heap[heap[s].op].pick_ori = ori

PresentTypes(info) == { t \in Types : info.nch[t] > 0 }

\* the info of the recording as read_raw_fif returns it
AsLoaded ==
    [nch |-> DiskNch, bads |-> disk.bads, ref |-> "none",
     ssp |-> disk.ssp, sss |-> FALSE]

UnfilteredRaws == { i \in OfKind("raw") : ~heap[i].info.sss }

\* the channel types and the reference the recording of notebook n has after
\* its first cells
RawTypesOf(n) ==
    CASE n = "BP" -> {"mag", "stim"}
      [] n = "EEG" -> {"eeg", "stim"}
      [] n = "SSS" -> {"grad", "mag", "stim"}
      [] OTHER -> Types

RawRefOf(n) == IF n \in {"EEG", "CCT"} THEN "average" ELSE "none"

\* C11 as stated: the loaded recording keeps the channel set, the reference
\* and the bad-channel list it was loaded with.
C11_RecordingImmutable ==
    Bound("raw") => heap[ns["raw"]].info = AsLoaded

\* C11, amended: channel selection, reference and bad-channel marking change
\* the one loaded recording in place, no derived copy is made of it; only
\* Maxwell filtering returns a new recording and leaves the loaded one as it
\* was.
C11_RecordingChangedInPlace ==
    Bound("events") =>
        LET r == heap[ns["raw"]]
        IN  /\ UnfilteredRaws = {ns["raw"]}
            /\ PresentTypes(r.info) = RawTypesOf(nb)
            /\ r.info.ref = RawRefOf(nb)
            /\ nb # "CCT" => r.ver > 0 /\ r.info # AsLoaded
            /\ (nb = "SSS" /\ Bound("raw_sss")) =>
                  /\ ns["raw_sss"] # ns["raw"]
                  /\ r.info.bads =
                        Append(PickInfo(AsLoaded, RawTypesOf(nb)).bads, "MEG 2313")
                  /\ heap[ns["raw_sss"]].info.sss
                  /\ \A b \in Range(heap[ns["raw_sss"]].info.bads) :
                        ChType(b) \notin MegTypes

C11_Witness ==
    /\ nb = "SSS" /\ Bound("events") /\ Bound("raw_sss")
    /\ heap[ns["raw"]].ver = 2
    /\ PresentTypes(heap[ns["raw"]].info) # PresentTypes(AsLoaded)

IsBound(o) == \E n \in Names : ns[n] = o

\* the inputs a covariance or an average was computed from are as they were
UpToDate(o) ==
    CASE heap[o].kind = "evoked" -> heap[heap[o].src].ver = heap[o].sver
      [] heap[o].kind = "cov" ->
            \A k \in DOMAIN heap[o].parts :
               heap[heap[o].parts[k].src].ver = heap[o].parts[k].sver
      [] OTHER -> TRUE

Derived == OfKind("epochs") \cup OfKind("evoked") \cup OfKind("cov")
              \cup OfKind("filters") \cup OfKind("stc")

\* C12 as stated: every derived object is still bound to its name (none was
\* overwritten), no covariance, filter or source estimate was mutated, and no
\* epoch collection changed after an average or covariance was computed from it.
C12_ProducedOnce ==
    /\ \A o \in Derived : IsBound(o)
    /\ \A o \in OfKind("cov") \cup OfKind("filters") \cup OfKind("stc") :
          heap[o].ver = 0
    /\ \A o \in OfKind("evoked") \cup OfKind("cov") : UpToDate(o)

\* C12, amended: names are bound again to newly produced objects, epoch
\* collections are reduced in place and source estimates cropped or divided in
\* place; but no covariance, filter or average is mutated once produced, and
\* what a solver is built from or applied to was computed from inputs that
\* are still as they were.
C12_SolverInputsFresh ==
    /\ \A o \in OfKind("cov") \cup OfKind("filters") \cup OfKind("evoked")
                  \cup OfKind("inv") : heap[o].ver = 0
    /\ \A f \in OfKind("filters") :
          /\ heap[f].dver = heap[heap[f].data_cov].ver
          /\ UpToDate(heap[f].data_cov)
          /\ heap[f].noise_cov # 0 => UpToDate(heap[f].noise_cov)
    /\ \A f \in OfKind("inv") : UpToDate(heap[f].noise_cov)
    /\ \A s \in OfKind("stc") :
          /\ heap[s].opver = heap[heap[s].op].ver
          /\ heap[s].inver = heap[heap[s].input].ver
          /\ UpToDate(heap[s].input)

C12_Witness ==
    /\ nb = "SSS" /\ status = "done"
    /\ ~UpToDate(ns["data_cov"])
    /\ \E o \in OfKind("evoked") : ~IsBound(o) /\ ~UpToDate(o)
    /\ heap[ns["stc_meg"]].ver > 0

TimeBase(e) == << e.first, e.last >>

BothCut == nb = "SSS" /\ Bound("epochs_orig") /\ Bound("epochs_sss")

\* C13 as stated, between the two collections of the Maxwell-filter notebook:
\* the epochs cut from the original and from the filtered recording have the
\* same channel set and the same time base.
C13_SameChannelsAndTimes ==
    BothCut =>
        /\ TimeBase(heap[ns["epochs_orig"]]) = TimeBase(heap[ns["epochs_sss"]])
        /\ heap[ns["epochs_orig"]].info.nch = heap[ns["epochs_sss"]].info.nch

\* C13, amended: every collection has the one time base of mne.Epochs, before
\* and after a channel selection; the two collections of the Maxwell-filter
\* notebook hold the same events and time base throughout and the same channel
\* set when cut and again once both are reduced to magnetometers, but between
\* the two selections the filtered one holds magnetometers only.
C13_SameTimesChannelsWhenCut ==
    /\ \A e \in OfKind("epochs") :
          TimeBase(heap[e]) = << TimeToSample(EpochTminUs), TimeToSample(EpochTmaxUs) >>
    /\ BothCut =>
          LET o == heap[ns["epochs_orig"]]
              f == heap[ns["epochs_sss"]]
          IN  /\ o.sel = f.sel
              /\ TimeBase(o) = TimeBase(f)
              /\ o.ver = f.ver => o.info.nch = f.info.nch
              /\ o.ver # f.ver =>
                    /\ PresentTypes(f.info) = {"mag"}
                    /\ PresentTypes(o.info) = {"grad", "mag", "stim"}
    /\ (nb = "CCT" /\ Bound("epochs_meg")) =>
          /\ heap[ns["epochs_meg"]].sel = heap[ns["epochs"]].sel
          /\ TimeBase(heap[ns["epochs_meg"]]) = TimeBase(heap[ns["epochs"]])

C13_Witness ==
    /\ BothCut
    /\ Len(heap[ns["epochs_sss"]].sel) = 2
    /\ heap[ns["epochs_sss"]].ver = 1 /\ heap[ns["epochs_orig"]].ver = 0

\* data whose singular values show more than one cliff: Maxwell-filtered data
\* and data of more than one sensor type
Ambiguous(f) ==
    heap[heap[f].data_cov].sss \/ Cardinality(SensorTypes(heap[f])) > 1

RankGiven(f) == \E t \in DataTypes : heap[f].rank[t] > 0

C19_GradiometersOnly ==
    (nb = "BP" /\ Bound("raw")) =>
        /\ PresentTypes(heap[ns["raw"]].info) = {"grad", "stim"}
        /\ \A c \in OfKind("cov") :
              { t \in DataTypes : heap[c].nch[t] > 0 } = {"grad"}
        /\ \A f \in OfKind("filters") : SensorTypes(heap[f]) = {"grad"}

CovTypes(c) == { t \in DataTypes : c.nch[t] > 0 }

\* C20: epochs_meg is a copy, so the selection of magnetometers and
\* gradiometers leaves the original epochs with every channel type, and the
\* later average, covariances and beamformer of the combined analysis are over
\* magnetometers, gradiometers and EEG.
C20_CopyKeepsOriginal ==
    (nb = "CCT" /\ Bound("epochs_meg")) =>
        /\ ns["epochs_meg"] # ns["epochs"]
        /\ PresentTypes(heap[ns["epochs_meg"]].info) = MegTypes
        /\ PresentTypes(heap[ns["epochs"]].info) = Types
        /\ heap[ns["epochs"]].ver = 0
        /\ Bound("evoked") =>
              /\ heap[ns["evoked"]].src = ns["epochs"]
              /\ PresentTypes(heap[ns["evoked"]].info) = DataTypes
        /\ \A f \in OfKind("filters") :
              heap[f].fwd = ns["fwd_meeg"] =>
                 /\ SensorTypes(heap[f]) = DataTypes
                 /\ CovTypes(heap[heap[f].data_cov]) = DataTypes
                 /\ CovTypes(heap[heap[f].noise_cov]) = DataTypes
                 /\ heap[heap[f].data_cov].parts[1].src = ns["epochs"]

C20_Witness ==
    /\ nb = "CCT" /\ status = "done"
    /\ \E f \in OfKind("filters") :
          heap[f].fwd = ns["fwd_meeg"] /\ SensorTypes(heap[f]) = DataTypes

Contrasts == { s \in OfKind("stc") : heap[s].div # 0 }

\* C21: the contrast divides a copy: the objects bound to stc_acti and
\* stc_base are not the contrast and have not been changed, however often the
\* contrast cell was executed.
C21_ContrastOnCopy ==
    (nb = "BP" /\ Bound("stc_diff")) =>
        /\ ns["stc_diff"] \notin {ns["stc_acti"], ns["stc_base"]}
        /\ ns["stc_diff"] \in Contrasts
        /\ \A n \in {"stc_acti", "stc_base"} :
              /\ ns[n] \notin Contrasts
              /\ heap[ns[n]].ver = 0
              /\ heap[ns[n]].how = "lcmv_cov"
        /\ \A s \in Contrasts :
              /\ heap[s].ver = 1
              /\ heap[heap[s].div].ver = 0

C21_Witness ==
    /\ nb = "BP" /\ Cardinality(Contrasts) = 3
    /\ \A s \in Contrasts :
          heap[s].input = ns["cov_acti"] /\ heap[s].div = ns["stc_base"]

\* C22: the Maxwell filter returns a new recording; the original keeps its
\* data, its bad channels and its stim channels, so the events found on it
\* serve both recordings: epochs_orig and epochs_sss hold the same events on
\* the same time base, epochs_orig with unfiltered and epochs_sss with
\* filtered data.
C22_FilterLeavesOriginal ==
    (nb = "SSS" /\ Bound("raw_sss")) =>
        LET r == heap[ns["raw"]]
            f == heap[ns["raw_sss"]]
        IN  /\ ns["raw_sss"] # ns["raw"]
            /\ ~r.info.sss /\ f.info.sss
            /\ r.ver = 2
            /\ r.events = f.events /\ r.events = disk.events
            /\ r.info.nch = f.info.nch /\ r.info.nch["stim"] = NStim
            /\ Bound("events") => heap[ns["events"]].codes = f.events
            /\ BothCut =>
                  /\ heap[ns["epochs_orig"]].src = ns["raw"]
                  /\ heap[ns["epochs_sss"]].src = ns["raw_sss"]
                  /\ ~heap[ns["epochs_orig"]].info.sss
                  /\ heap[ns["epochs_sss"]].info.sss
                  /\ heap[ns["epochs_orig"]].sel = heap[ns["epochs_sss"]].sel
                  /\ TimeBase(heap[ns["epochs_orig"]]) =
                        TimeBase(heap[ns["epochs_sss"]])

C22_Witness ==
    /\ BothCut /\ status = "done"
    /\ heap[ns["epochs_orig"]].sel = <<4, 3>>
    /\ ~heap[ns["raw"]].info.sss

\* the codes a notebook cuts epochs around
SelectedCodes(n) == IF n = "EEG" THEN {1, 2} ELSE {3, 4}

\* the events of a recording with a code in S, in their order
WithCode(codes, S) == SelectSeq(codes, LAMBDA c : c \in S)

\* C23: the epochs of a collection are the windows around the events whose
\* code is selected (3 and 4, in the EEG notebook 1 and 2), one epoch per such
\* event and none around another event, and an average is over those epochs.
C23_EpochsOfSelectedCodes ==
    /\ \A e \in OfKind("epochs") :
          /\ Range(heap[e].sel) \subseteq SelectedCodes(nb)
          /\ heap[e].sel = WithCode(heap[heap[e].src].events, SelectedCodes(nb))
    /\ \A a \in OfKind("evoked") :
          /\ heap[a].sel = heap[heap[a].src].sel
          /\ heap[a].nave = Len(heap[a].sel)
          /\ Range(heap[a].sel) \subseteq SelectedCodes(nb)

C23_Witness ==
    /\ nb = "EEG" /\ Bound("evoked")
    /\ heap[ns["events"]].codes = <<1, 2, 3, 4, 5>>
    /\ heap[ns["epochs"]].sel = <<1, 2>>
    /\ heap[ns["evoked"]].nave = 2

Parts(c) == { heap[c].parts[k] : k \in DOMAIN heap[c].parts }

\* no sample after stimulus onset (sample 0), some before it
Baseline(p) == p.k0 < 0 /\ p.k1 <= 0

\* from onset on, with samples after it
PostStimulus(p) == p.k0 >= 0 /\ p.k1 > 0

\* C24: a noise covariance handed to a beamformer or to a minimum-norm
\* inverse operator is estimated from baseline samples only, none after
\* stimulus onset; a data covariance handed to a beamformer is estimated from
\* samples that include a post-stimulus window.
C24_NoiseFromBaseline ==
    /\ \A f \in OfKind("filters") :
          /\ \E p \in Parts(heap[f].data_cov) : PostStimulus(p)
          /\ heap[f].noise_cov # 0 =>
                \A p \in Parts(heap[f].noise_cov) : Baseline(p)
    /\ \A i \in OfKind("inv") :
          \A p \in Parts(heap[i].noise_cov) : Baseline(p)

C24_Witness ==
    /\ \E f \in OfKind("filters") : heap[f].noise_cov # 0
    /\ \E i \in OfKind("inv") :
          \E p \in Parts(heap[i].noise_cov) :
             p.k0 = TimeToSample(EpochTminUs) /\ p.k1 = 0

\* the channel types the forward operator of a solver has
FwdCovers(f) ==
    \A t \in DataTypes : heap[f].info_nch[t] > 0 => t \in heap[heap[f].fwd].types

\* the good data channels of what a solver is applied to
InputNch(s) ==
    IF heap[heap[s].input].kind = "cov" THEN heap[heap[s].input].nch
    ELSE GoodData(heap[heap[s].input].info)

\* C25: a filter or inverse operator is built from a measurement info, a data
\* covariance and a noise covariance over the same channels, all of them in
\* the forward operator, and it is applied to data over these channels; also
\* where the epochs were reduced in place before.
C25_SameChannels ==
    /\ \A f \in OfKind("filters") :
          /\ heap[heap[f].data_cov].nch = heap[f].info_nch
          /\ heap[f].noise_cov # 0 =>
                heap[heap[f].noise_cov].nch = heap[f].info_nch
          /\ heap[f].nch = heap[f].info_nch
          /\ FwdCovers(f)
    /\ \A i \in OfKind("inv") :
          /\ heap[heap[i].noise_cov].nch = heap[i].info_nch
          /\ heap[i].nch = heap[i].info_nch
          /\ FwdCovers(i)
    /\ \A s \in OfKind("stc") : InputNch(s) = heap[heap[s].op].info_nch

C25_Witness ==
    /\ nb = "SSS" /\ status = "done"
    /\ heap[ns["epochs_orig"]].ver = 1
    /\ \E s \in OfKind("stc") :
          /\ heap[heap[s].op].info_nch = [t \in DataTypes |-> IF t = "mag" THEN NMag ELSE 0]
          /\ heap[heap[heap[s].op].data_cov].parts[1].src = ns["epochs_orig"]

\* the windows paired in one beamformer, noise first
NoiseDataPairs ==
    { << pn, pd >> \in
         UNION { Parts(heap[f].noise_cov) \X Parts(heap[f].data_cov) :
                    f \in { g \in OfKind("filters") : heap[g].noise_cov # 0 } } :
         TRUE }

\* the windows paired in the contrast, baseline first
ContrastPairs ==
    IF nb = "BP" /\ Bound("cov_base") /\ Bound("cov_acti")
    THEN Parts(ns["cov_base"]) \X Parts(ns["cov_acti"])
    ELSE {}

\* C26 as stated: in every pair the baseline window ends strictly before the
\* activity window begins.
C26_WindowsDisjoint ==
    \A pr \in NoiseDataPairs \cup ContrastPairs : pr[1].k1 < pr[2].k0

\* C26, amended: the baseline window never reaches past the first sample of
\* the activity window; in the contrast and in the Maxwell-filter notebook it
\* ends strictly before, in the combined-sensor notebook both windows contain
\* the one sample at stimulus onset.
C26_WindowsShareOnsetAtMost ==
    /\ \A pr \in ContrastPairs : pr[1].k1 < pr[2].k0
    /\ \A pr \in NoiseDataPairs :
          /\ pr[1].k1 <= pr[2].k0
          /\ pr[1].k0 < pr[2].k0
          /\ nb = "CCT" <=> pr[1].k1 = pr[2].k0
          /\ pr[1].k1 = pr[2].k0 => pr[2].k0 = 0

C26_Witness ==
    /\ nb = "CCT" /\ status = "done"
    /\ \E pr \in NoiseDataPairs :
          pr[1].k1 = 0 /\ pr[2].k0 = 0 /\ pr[1].n > 0 /\ pr[2].n > 0

\* the kernel state after the cell at pc
AfterNextCell ==
    ExecAll(CellsOf(nb)[pc].stmts, [ns |-> ns, heap |-> heap, err |-> ""])

\* objects are numbered in the order they are produced
ProducedBefore(a, b) == a # 0 /\ a < b

\* C27: with the cells executed once from top to bottom no cell reads a name
\* that no earlier cell has bound, and every source estimate comes from a
\* filter or inverse operator produced before it, itself built from
\* covariances produced before it, computed from epochs produced before them.
C27_ProducedBeforeUse ==
    /\ (status = "running" /\ pc <= Len(CellsOf(nb))) =>
          AfterNextCell.err # "NameError"
    /\ \A s \in OfKind("stc") :
          /\ ProducedBefore(heap[s].op, s)
          /\ ProducedBefore(heap[s].input, s)
          /\ heap[heap[s].op].kind \in {"filters", "inv"}
    /\ \A f \in OfKind("filters") :
          /\ ProducedBefore(heap[f].data_cov, f)
          /\ ProducedBefore(heap[f].fwd, f)
          /\ heap[f].noise_cov # 0 => ProducedBefore(heap[f].noise_cov, f)
    /\ \A i \in OfKind("inv") :
          ProducedBefore(heap[i].noise_cov, i) /\ ProducedBefore(heap[i].fwd, i)
    /\ \A c \in OfKind("cov") :
          \A p \in Parts(c) :
             ProducedBefore(p.src, c) /\ heap[p.src].kind = "epochs"
    /\ \A e \in OfKind("epochs") \cup OfKind("evoked") :
          ProducedBefore(heap[e].src, e)

C27_Witness ==
    /\ status = "done" /\ nb = "SSS" /\ Bound("stc_mne")
    /\ heap[heap[ns["stc_mne"]].op].kind = "inv"
    /\ \A n \in {"stc_sss", "stc_orig", "stc_meg"} :
          Bound(n) /\ heap[heap[ns[n]].op].kind = "filters"

Count(seq, x) == Cardinality({ i \in DOMAIN seq : seq[i] = x })

\* the bad channels of the loaded list that the channel selection keeps
KeptDiskBads == PickInfo(AsLoaded, RawTypesOf("SSS")).bads

\* C28 as stated: once the bad-channel cell has been executed, however often,
\* the list of the recording names 'MEG 2313' exactly once.
C28_MarkedOnce ==
    \A r \in UnfilteredRaws :
        (nb = "SSS" /\ "MEG 2313" \in Range(heap[r].info.bads)) =>
            Count(heap[r].info.bads, "MEG 2313") = 1

\* C28, amended: every execution of the bad-channel cell appends one more
\* entry 'MEG 2313' to the list of the recording, which is otherwise the
\* loaded list without the channels the selection dropped; the entry is there
\* exactly once when no cell is executed again, and then the Maxwell filter
\* runs on a recording that has it.
C28_OneEntryPerExecution ==
    nb = "SSS" =>
        /\ \A r \in UnfilteredRaws :
              LET k == Count(heap[r].info.bads, "MEG 2313")
              IN  /\ heap[r].info.bads =
                        KeptDiskBads \o [i \in 1..k |-> "MEG 2313"]
                  /\ heap[r].ver = 1 + k
        /\ (reruns = 0 /\ Bound("raw_sss")) =>
              Count(heap[ns["raw"]].info.bads, "MEG 2313") = 1

C28_Witness ==
    /\ nb = "SSS" /\ Bound("raw_sss")
    /\ Count(heap[ns["raw"]].info.bads, "MEG 2313") = 3

=============================================================================
